---- MODULE Spec2Model ----
(***************************************************************************)
(* A model of SMQTK's indexer plugin layer, lib/SMQTK/Indexers/__init__.py: *)
(*   - class Indexer: the shared precondition checks of the lifecycle       *)
(*     methods and the lazily created data / work directories;              *)
(*   - get_indexers(): the discovery of Indexer classes in the plugin       *)
(*     directory.                                                           *)
(* The lifecycle methods are abstract: Indexer holds only the checks a      *)
(* concrete indexer runs first (through super()).  What a concrete indexer  *)
(* does after a check has passed is not part of the file; it is modelled    *)
(* from the specification and named ...Impl below.                          *)
(***************************************************************************)
EXTENDS Integers, Sequences, FiniteSets, TLC

VARIABLES
    needsModel,     \* whether this indexer type needs a model at all
    dataDirExists,  \* os.path.isdir(self._data_dir)
    workDirExists,  \* os.path.isdir(self._work_dir)
    persisted,      \* the model file(s) under the data directory
    memory,         \* the in-memory model of the instance
    extended,       \* an extension is applied to the in-memory model
    baseline,       \* history: the in-memory model right after generation
    writes,         \* history: number of times the persisted model was written
    lastOp,         \* the last call made on the instance
    lastArgEmpty,   \* the last call was given an empty feature map
    lastErr,        \* what the last call raised ("none": it returned)
    lastRet,        \* what the last call returned
    lastPath,       \* the path the last property access returned
    prevLife,       \* history: the lifecycle state before the last call
    listing,        \* os.listdir(this_dir): the plugin directory, in scan order
    idx,            \* position of the for loop of get_indexers in listing
    class_map,      \* the local class_map of get_indexers
    outcome,        \* "running", "returned" or the exception get_indexers raised
    culprit,        \* index in listing of the entry get_indexers raised on
    registry        \* the map the caller received (empty until returned)

idxVars  == <<needsModel, dataDirExists, workDirExists, persisted, memory,
              extended, baseline, writes, lastOp, lastArgEmpty, lastErr, lastRet,
              lastPath, prevLife>>
discVars == <<listing, idx, class_map, outcome, culprit, registry>>
vars     == <<idxVars, discVars>>

-----------------------------------------------------------------------------
(* Bounds *)

MaxId == 2          \* feature ids are 1..MaxId
MaxWrites == 2      \* cap of the history counter writes
MaxFiles == 2       \* the plugin directory holds at most MaxFiles entries

Ids  == 1..MaxId
\* the feature vectors: two distinct vectors of one dimensionality
Vals == {0, 1}

-----------------------------------------------------------------------------
(* Feature maps and models *)

EmptyMap == [i \in {} |-> 0]

\* dict of (int, ndarray): every mapping of some ids to a vector
FeatureMaps == UNION {[D -> Vals] : D \in SUBSET Ids}

NoModel == [present |-> FALSE, fm |-> EmptyMap]

ModelOf(fm) == [present |-> TRUE, fm |-> fm]

\* the exceptions of the lifecycle methods, by type and message
NoError          == "none"
ModelExistsError == "RuntimeError: A model already exists for this indexer!"
NoModelError     == "RuntimeError: No model available for this indexer."
EmptyInputError  == "ValueError: The given feature_map has no content."
ImplError        == "error raised by the implementation"

\* has_model(): a usable persisted or in-memory model exists, or the
\* indexer needs none
has_model == (~needsModel) \/ persisted.present \/ memory.present

Lifecycle ==
    IF ~has_model THEN "NO_MODEL"
    ELSE IF extended THEN "MODEL_EXTENDED" ELSE "MODEL_READY"

-----------------------------------------------------------------------------
(* The shared precondition checks of class Indexer *)

\* generate_model without the existing-model check
GeneratePre_NoExistingCheck(hm, fm) ==
    IF fm = EmptyMap THEN EmptyInputError ELSE NoError

\* generate_model without the empty-input check
GeneratePre_NoEmptyCheck(hm, fm) ==
    IF hm THEN ModelExistsError ELSE NoError

\* generate_model with the empty-input check inverted
GeneratePre_EmptyInverted(hm, fm) ==
    IF hm THEN ModelExistsError
    ELSE IF fm # EmptyMap THEN EmptyInputError
    ELSE NoError

\* generate_model with the two checks in the other order
GeneratePre_EmptyFirst(hm, fm) ==
    IF fm = EmptyMap THEN EmptyInputError
    ELSE IF hm THEN ModelExistsError
    ELSE NoError

\* generate_model with the existing-model check inverted
GeneratePre_ExistingInverted(hm, fm) ==
    IF ~hm THEN ModelExistsError
    ELSE IF fm = EmptyMap THEN EmptyInputError
    ELSE NoError

\* generate_model: the existing-model check, then the empty-input check
GeneratePre(hm, fm) ==
    IF hm THEN ModelExistsError
    ELSE IF fm = EmptyMap THEN EmptyInputError
    ELSE NoError

\* extend_model without the no-model check
ExtendPre_NoCheck(hm, fm) == NoError

\* extend_model with an empty-input check like generate_model's
ExtendPre_EmptyCheck(hm, fm) ==
    IF ~hm THEN NoModelError
    ELSE IF fm = EmptyMap THEN EmptyInputError
    ELSE NoError

\* extend_model: the no-model check only
ExtendPre(hm, fm) == IF ~hm THEN NoModelError ELSE NoError

\* rank_model
RankPre(hm) == IF ~hm THEN NoModelError ELSE NoError

\* reset with the no-model check inverted
ResetPre_Inverted(hm) == IF hm THEN NoModelError ELSE NoError

\* reset
ResetPre(hm) == IF ~hm THEN NoModelError ELSE NoError

\* a property that returns the path without creating the directory
EnsureDir_NeverCreates(exists) == exists

\* the data_dir / work_dir property: os.makedirs if the directory is absent
\* (taken to succeed), then return the path
EnsureDir(exists) == IF ~exists THEN TRUE ELSE exists

-----------------------------------------------------------------------------
(* What a concrete indexer does once the shared check has passed *)

\* extension: the new entries are incorporated into the in-memory model
Merge(m, g) ==
    [i \in (DOMAIN m) \cup (DOMAIN g) |-> IF i \in DOMAIN g THEN g[i] ELSE m[i]]

\* ranking: a score in [0, 1] for every id of the model; positives rank 1,
\* negatives 0, any other id 1 iff its feature equals a positive's
Rank(m, pos, neg) ==
    [i \in DOMAIN m |->
        IF i \in pos THEN 1
        ELSE IF i \in neg THEN 0
        ELSE IF \E p \in pos \cap DOMAIN m : m[p] = m[i] THEN 1 ELSE 0]

\* generation persists the model under data_dir and holds it in memory
GenerateImpl(fm) ==
    /\ dataDirExists' = EnsureDir(dataDirExists)
    /\ persisted' = ModelOf(fm)
    /\ memory' = ModelOf(fm)
    /\ baseline' = ModelOf(fm)
    /\ extended' = FALSE
    /\ writes' = IF writes < MaxWrites THEN writes + 1 ELSE writes

\* extension changes the in-memory model only
ExtendImpl(g) ==
    /\ memory' = ModelOf(Merge(memory.fm, g))
    /\ extended' = TRUE
    /\ UNCHANGED <<dataDirExists, persisted, baseline, writes>>

\* a reset that keeps the extension
ResetImpl_KeepsExtension ==
    /\ extended' = FALSE
    /\ UNCHANGED <<memory, dataDirExists, persisted, baseline, writes>>

\* reset returns to the last persisted state (an indexer that needs no
\* model returns to its empty state)
ResetImpl ==
    /\ memory' = persisted
    /\ extended' = FALSE
    /\ UNCHANGED <<dataDirExists, persisted, baseline, writes>>

-----------------------------------------------------------------------------
(* The calls on an indexer instance *)

\* the argument recorded for a call that takes no feature map
NoArg == [i \in {0} |-> 0]

\* self._data_dir and self._work_dir, as given to the constructor
data_dir_path == "data_dir"

work_dir_path == "work_dir"

NoPath == ""

\* a call on the constructed instance
Called(op, arg) ==
    /\ lastOp # "new"
    /\ lastOp' = op
    /\ lastArgEmpty' = (arg = EmptyMap)
    /\ prevLife' = Lifecycle

IdxFrame == UNCHANGED <<needsModel, workDirExists, discVars>>

ModelFrame == UNCHANGED <<persisted, memory, extended, baseline, writes>>

\* generate_model(feature_map)
GenerateModel(fm) ==
    /\ Called("generate_model", fm)
    /\ lastPath' = NoPath
    /\ lastRet' = EmptyMap
    /\ IdxFrame
    /\ LET err == GeneratePre(has_model, fm) IN
        IF err = ModelExistsError
        THEN \* the message is formatted with self.data_dir
             /\ lastErr' = err
             /\ dataDirExists' = EnsureDir(dataDirExists)
             /\ ModelFrame
        ELSE IF err # NoError
        THEN /\ lastErr' = err
             /\ UNCHANGED dataDirExists
             /\ ModelFrame
        ELSE \/ /\ lastErr' = NoError
                /\ GenerateImpl(fm)
             \/ /\ lastErr' = ImplError
                /\ UNCHANGED dataDirExists
                /\ ModelFrame

\* extend_model(id_feature_map)
ExtendModel(g) ==
    /\ Called("extend_model", g)
    /\ lastPath' = NoPath
    /\ lastRet' = EmptyMap
    /\ IdxFrame
    /\ LET err == ExtendPre(has_model, g) IN
        IF err # NoError
        THEN /\ lastErr' = err
             /\ UNCHANGED dataDirExists
             /\ ModelFrame
        ELSE \/ /\ lastErr' = NoError
                /\ ExtendImpl(g)
             \/ /\ lastErr' = ImplError
                /\ UNCHANGED dataDirExists
                /\ ModelFrame

\* rank_model(pos_ids, neg_ids)
RankModel(pos, neg) ==
    /\ Called("rank_model", NoArg)
    /\ lastPath' = NoPath
    /\ IdxFrame
    /\ UNCHANGED dataDirExists
    /\ ModelFrame
    /\ LET err == RankPre(has_model) IN
        IF err # NoError
        THEN /\ lastErr' = err
             /\ lastRet' = EmptyMap
        ELSE \/ /\ lastErr' = NoError
                /\ lastRet' = Rank(memory.fm, pos, neg)
             \/ /\ lastErr' = ImplError
                /\ lastRet' = EmptyMap

\* reset()
Reset ==
    /\ Called("reset", NoArg)
    /\ lastPath' = NoPath
    /\ lastRet' = EmptyMap
    /\ IdxFrame
    /\ LET err == ResetPre(has_model) IN
        IF err # NoError
        THEN /\ lastErr' = err
             /\ UNCHANGED dataDirExists
             /\ ModelFrame
        ELSE /\ lastErr' = NoError
             /\ ResetImpl

\* the data_dir property
DataDir ==
    /\ Called("data_dir", NoArg)
    /\ lastPath' = data_dir_path
    /\ lastErr' = NoError
    /\ lastRet' = EmptyMap
    /\ dataDirExists' = EnsureDir(dataDirExists)
    /\ IdxFrame
    /\ ModelFrame

\* the work_dir property
WorkDir ==
    /\ Called("work_dir", NoArg)
    /\ lastPath' = work_dir_path
    /\ lastErr' = NoError
    /\ lastRet' = EmptyMap
    /\ workDirExists' = EnsureDir(workDirExists)
    /\ UNCHANGED <<needsModel, dataDirExists, discVars>>
    /\ ModelFrame

\* Indexer(data_dir, work_dir): the constructor stores the two paths
Construct ==
    /\ lastOp = "new"
    /\ lastOp' = "init"
    /\ UNCHANGED <<lastArgEmpty, lastErr, lastRet, lastPath, prevLife>>
    /\ UNCHANGED <<dataDirExists, workDirExists>>
    /\ IdxFrame
    /\ ModelFrame

-----------------------------------------------------------------------------
(* Strings, as sequences of characters *)

Letters ==
    {"a", "b", "c", "d", "e", "f", "g", "h", "i", "j", "k", "l", "m",
     "n", "o", "p", "q", "r", "s", "t", "u", "v", "w", "x", "y", "z",
     "A", "B", "C", "D", "E", "F", "G", "H", "I", "J", "K", "L", "M",
     "N", "O", "P", "Q", "R", "S", "T", "U", "V", "W", "X", "Y", "Z"}

\* a file_re that matches every name
file_re_match_AnyName(file) == Len(file) >= 1

\* file_re = "^[a-zA-Z].*(?:\.py)?$", used with file_re.match
file_re_match(file) == Len(file) >= 1 /\ file[1] \in Letters

\* index of the last "." of s, 0 if there is none
LastDot(s) ==
    LET dots == {i \in 1..Len(s) : s[i] = "."} IN
    IF dots = {} THEN 0 ELSE CHOOSE i \in dots : \A j \in dots : j <= i

\* os.path.splitext(s)[0]: s up to its last dot, unless only dots precede it
splitext_root(s) ==
    LET d == LastDot(s) IN
    IF d > 0 /\ (\E i \in 1..(d - 1) : s[i] # ".")
    THEN SubSeq(s, 1, d - 1)
    ELSE s

\* __name__ of the package, "SMQTK.Indexers"
PackageName ==
    <<"S", "M", "Q", "T", "K", ".", "I", "n", "d", "e", "x", "e", "r", "s">>

\* module_path = '.'.join([__name__, module_name])
module_path_of(module_name) == PackageName \o <<".">> \o module_name

\* standard_var = "INDEXER_CLASS"
standard_var ==
    <<"I", "N", "D", "E", "X", "E", "R", "_", "C", "L", "A", "S", "S">>

-----------------------------------------------------------------------------
(* Python values found in plugin modules *)

\* a class object: its __name__, its identity, whether it subclasses Indexer
Class(name, id, isIndexer) ==
    [kind |-> "class", name |-> name, id |-> id, isIndexer |-> isIndexer,
     items |-> <<>>]

\* a list or tuple
ListOf(items) ==
    [kind |-> "list", name |-> <<>>, id |-> 0, isIndexer |-> FALSE,
     items |-> items]

\* any other object (an int, a string, None): no class, no __name__
Other ==
    [kind |-> "other", name |-> <<>>, id |-> 0, isIndexer |-> FALSE,
     items |-> <<>>]

ClsA  == Class(<<"A">>, 1, TRUE)
ClsB  == Class(<<"B">>, 2, TRUE)
ClsA2 == Class(<<"A">>, 3, TRUE)     \* another Indexer class named A
ClsX  == Class(<<"X">>, 4, FALSE)    \* a class that is no Indexer

\* the exceptions of get_indexers, by type and message
ImportError     == "ImportError"
MarkerError     == "RuntimeError: [%s] %s variable not set to a valid value."
SameNameError   == "RuntimeError: [%s] Failed to find valid class by module name"
TypeError       == "TypeError: issubclass() arg 1 must be a class"
AttributeError  == "AttributeError: object has no attribute '__name__'"

\* issubclass(v, Indexer): raises TypeError unless v is a class
issubclass_Indexer(v) ==
    IF v.kind # "class" THEN TypeError
    ELSE IF v.isIndexer THEN "True" ELSE "False"

\* hasattr(module, name)
hasattr(attrs, name) == name \in DOMAIN attrs

\* a registration that keeps the class already under the name
Put_KeepFirst(map, name, cls) ==
    [n \in (DOMAIN map) \cup {name} |-> IF n \in DOMAIN map THEN map[n] ELSE cls]

\* class_map[name] = cls
Put(map, name, cls) ==
    [n \in (DOMAIN map) \cup {name} |-> IF n = name THEN cls ELSE map[n]]

-----------------------------------------------------------------------------
(* The plugin directory *)

\* entries of the directory: s.py, the package k, _h.py, 1n.py
Files ==
    {<<"s", ".", "p", "y">>, <<"k">>, <<"_", "h", ".", "p", "y">>,
     <<"1", "n", ".", "p", "y">>}

Attr1(name, v) == [n \in {name} |-> v]

Attr2(n1, v1, n2, v2) == [n \in {n1, n2} |-> IF n = n1 THEN v1 ELSE v2]

\* the attribute tables a module of the given short name may have
AttrTables(module_name) ==
    LET p    == module_path_of(module_name)
        same == Class(module_name, 5, TRUE)
        bad  == Class(module_name, 6, FALSE)
    IN  {EmptyMap}
        \cup {Attr1(standard_var, v) :
                v \in {ClsA, ClsX, Other, ListOf(<<>>), ListOf(<<ClsA, ClsB>>),
                       ListOf(<<ClsA, ClsX>>), ListOf(<<ClsA, Other>>),
                       ListOf(<<ClsA, ClsA2>>)}}
        \cup {Attr1(module_name, v) : v \in {same, bad}}
        \cup {Attr1(p, v) : v \in {same, bad, Other}}
        \cup {Attr2(standard_var, ClsB, p, bad)}

\* a directory entry: its name, whether importing it succeeds, and the
\* attributes of the imported module
Entries ==
    UNION {
        {[file |-> f, importOk |-> TRUE, attrs |-> a] :
            a \in AttrTables(splitext_root(f))}
        \cup {[file |-> f, importOk |-> FALSE, attrs |-> EmptyMap]}
      : f \in Files}

\* os.listdir: any order, no name twice
Listings ==
    UNION {
        {l \in [1..n -> Entries] :
            \A i \in 1..n : \A j \in 1..n : i # j => l[i].file # l[j].file}
      : n \in 1..MaxFiles}

-----------------------------------------------------------------------------
(* get_indexers *)

\* the classes a module exports: the marker first, else the attribute
\* named module.__name__, else nothing
Exports(attrs, dunder_name) ==
    IF hasattr(attrs, standard_var)
    THEN LET cl_classes == attrs[standard_var] IN
         IF cl_classes.kind = "list"
         THEN [err |-> NoError, cl_classes |-> cl_classes.items]
         ELSE IF issubclass_Indexer(cl_classes) = TypeError
         THEN [err |-> TypeError, cl_classes |-> <<>>]
         ELSE IF issubclass_Indexer(cl_classes) = "True"
         THEN [err |-> NoError, cl_classes |-> <<cl_classes>>]
         ELSE [err |-> MarkerError, cl_classes |-> <<>>]
    ELSE IF hasattr(attrs, dunder_name)
    THEN LET cl_classes == attrs[dunder_name] IN
         IF issubclass_Indexer(cl_classes) = TypeError
         THEN [err |-> TypeError, cl_classes |-> <<>>]
         ELSE IF issubclass_Indexer(cl_classes) = "True"
         THEN [err |-> NoError, cl_classes |-> <<cl_classes>>]
         ELSE [err |-> SameNameError, cl_classes |-> <<>>]
    ELSE [err |-> NoError, cl_classes |-> <<>>]

\* a registration loop that stops after the first class
Register_FirstOnly(map, cl_classes) ==
    IF cl_classes = <<>> THEN [err |-> NoError, map |-> map]
    ELSE LET cls == Head(cl_classes) IN
         IF cls.kind # "class" THEN [err |-> AttributeError, map |-> map]
         ELSE [err |-> NoError, map |-> Put(map, cls.name, cls)]

\* for cls in cl_classes: class_map[cls.__name__] = cls
RECURSIVE Register(_, _)
Register(map, cl_classes) ==
    IF cl_classes = <<>> THEN [err |-> NoError, map |-> map]
    ELSE LET cls == Head(cl_classes) IN
         IF cls.kind # "class" THEN [err |-> AttributeError, map |-> map]
         ELSE Register(Put(map, cls.name, cls), Tail(cl_classes))

\* one iteration of the loop over os.listdir(this_dir)
ScanEntry(entry, map) ==
    IF ~file_re_match(entry.file) THEN [err |-> NoError, map |-> map]
    ELSE LET module_name == splitext_root(entry.file)
             module_path == module_path_of(module_name)
         IN  IF ~entry.importOk THEN [err |-> ImportError, map |-> map]
             ELSE LET ex == Exports(entry.attrs, module_path) IN
                  IF ex.err # NoError THEN [err |-> ex.err, map |-> map]
                  ELSE Register(map, ex.cl_classes)

DiscFrame == UNCHANGED idxVars

\* the body of the for loop, for the next directory entry
ScanNext ==
    /\ outcome = "running"
    /\ idx <= Len(listing)
    /\ LET r == ScanEntry(listing[idx], class_map) IN
        /\ class_map' = r.map
        /\ IF r.err = NoError
           THEN /\ idx' = idx + 1
                /\ UNCHANGED <<outcome, culprit>>
           ELSE /\ outcome' = r.err
                /\ culprit' = idx
                /\ UNCHANGED idx
    /\ UNCHANGED <<listing, registry>>
    /\ DiscFrame

\* return class_map
ReturnMap ==
    /\ outcome = "running"
    /\ idx > Len(listing)
    /\ outcome' = "returned"
    /\ registry' = class_map
    /\ UNCHANGED <<listing, idx, class_map, culprit>>
    /\ DiscFrame

\* discovery not running (the lifecycle specification)
DiscIdle ==
    /\ listing = <<>>
    /\ idx = 1
    /\ class_map = EmptyMap
    /\ outcome = "idle"
    /\ culprit = 0
    /\ registry = EmptyMap

-----------------------------------------------------------------------------
(* The indexer instance *)

\* Before Indexer(data_dir, work_dir) is called.  The data directory may
\* hold a model generated earlier, which the instance finds when it is
\* constructed; a model can only be there if the directory is.
Init ==
    /\ needsModel \in BOOLEAN
    /\ dataDirExists \in BOOLEAN
    /\ workDirExists \in BOOLEAN
    /\ persisted \in {NoModel} \cup
         {ModelOf(fm) : fm \in {f \in FeatureMaps :
                                   dataDirExists /\ needsModel /\ f # EmptyMap}}
    /\ memory = persisted
    /\ baseline = persisted
    /\ extended = FALSE
    /\ writes = 0
    /\ lastOp = "new"
    /\ lastArgEmpty = FALSE
    /\ lastErr = NoError
    /\ lastRet = EmptyMap
    /\ lastPath = NoPath
    /\ prevLife = "NO_MODEL"
    /\ DiscIdle

\* the calls, with any arguments
GenerateCall == \E fm \in FeatureMaps : GenerateModel(fm)

ExtendCall == \E g \in FeatureMaps : ExtendModel(g)

RankCall == \E pos \in SUBSET Ids : \E neg \in SUBSET Ids : RankModel(pos, neg)

Next ==
    \/ Construct
    \/ GenerateCall
    \/ ExtendCall
    \/ RankCall
    \/ Reset
    \/ DataDir
    \/ WorkDir

Spec == Init /\ [][Next]_vars

-----------------------------------------------------------------------------
(* Discovery *)

\* no indexer instance is constructed during discovery
IdxIdle ==
    /\ needsModel = TRUE
    /\ dataDirExists = FALSE
    /\ workDirExists = FALSE
    /\ persisted = NoModel
    /\ memory = NoModel
    /\ baseline = NoModel
    /\ extended = FALSE
    /\ writes = 0
    /\ lastOp = "new"
    /\ lastArgEmpty = FALSE
    /\ lastErr = NoError
    /\ lastRet = EmptyMap
    /\ lastPath = NoPath
    /\ prevLife = "NO_MODEL"

\* get_indexers() is called on some plugin directory
InitDisc ==
    /\ listing \in Listings
    /\ idx = 1
    /\ class_map = EmptyMap
    /\ outcome = "running"
    /\ culprit = 0
    /\ registry = EmptyMap
    /\ IdxIdle

NextDisc == ScanNext \/ ReturnMap

SpecDisc == InitDisc /\ [][NextDisc]_vars

-----------------------------------------------------------------------------
(* Properties of the lifecycle methods, checked under Spec *)

ModelState == <<persisted, memory, extended>>

\* C1: on an instance whose has_model() is true, every generate_model call,
\* whatever the feature map, raises the model-already-exists error, makes
\* no lifecycle transition and leaves the persisted model unchanged.
C1_GenerateOnExistingModelFails ==
    [][(has_model /\ lastOp' = "generate_model" /\ GenerateCall) =>
          /\ lastErr' = ModelExistsError
          /\ Lifecycle' = Lifecycle
          /\ persisted' = persisted]_vars

C1_Witness ==
    /\ lastOp = "generate_model"
    /\ ~lastArgEmpty
    /\ lastErr = ModelExistsError
    /\ persisted.present
    /\ prevLife = "MODEL_EXTENDED"

\* C2: on an instance whose has_model() is false, extend_model, rank_model
\* and reset raise the no-model error for any arguments; the instance stays
\* in NO_MODEL and its persisted and in-memory state are unchanged.
C2_NoModelCallsFail ==
    [][(/\ ~has_model
        /\ lastOp' \in {"extend_model", "rank_model", "reset"}
        /\ ExtendCall \/ RankCall \/ Reset) =>
              /\ lastErr' = NoModelError
              /\ Lifecycle' = "NO_MODEL"
              /\ UNCHANGED ModelState
              /\ UNCHANGED <<dataDirExists, workDirExists>>]_vars

C2_Witness ==
    /\ lastOp \in {"extend_model", "rank_model", "reset"}
    /\ prevLife = "NO_MODEL"
    /\ lastErr = NoModelError
    /\ ~has_model

\* C3: on an instance with no model, generate_model with an empty feature
\* map raises the empty-input error and has_model() is still false.
C3_GenerateEmptyFails ==
    [][(~has_model /\ GenerateModel(EmptyMap)) =>
          /\ lastErr' = EmptyInputError
          /\ ~has_model'
          /\ Lifecycle' = "NO_MODEL"]_vars

C3_Witness ==
    /\ lastOp = "generate_model"
    /\ lastArgEmpty
    /\ prevLife = "NO_MODEL"
    /\ lastErr = EmptyInputError
    /\ ~has_model

\* C4: on an instance with no model, generate_model with a non-empty
\* feature map raises neither the model-already-exists nor the empty-input
\* error, and when it succeeds the instance goes from NO_MODEL to
\* MODEL_READY: has_model() goes from false to true.
C4_GenerateNonEmptyPasses ==
    [][(/\ ~has_model
        /\ \E fm \in FeatureMaps \ {EmptyMap} : GenerateModel(fm)) =>
          /\ lastErr' \notin {ModelExistsError, EmptyInputError}
          /\ lastErr' = NoError =>
                (has_model' /\ Lifecycle' = "MODEL_READY")]_vars

C4_Witness ==
    /\ lastOp = "generate_model"
    /\ ~lastArgEmpty
    /\ prevLife = "NO_MODEL"
    /\ lastErr = NoError
    /\ Lifecycle = "MODEL_READY"

\* C5: after a model was generated and one or more extensions succeeded, a
\* successful reset leaves the instance in MODEL_READY with a model that
\* ranks, for every pair of exemplar sets, as the model did right after its
\* generation.
C5_ResetRestoresGenerated ==
    (/\ lastOp = "reset"
     /\ lastErr = NoError
     /\ prevLife = "MODEL_EXTENDED"
     /\ baseline.present) =>
        /\ Lifecycle = "MODEL_READY"
        /\ \A pos \in SUBSET Ids : \A neg \in SUBSET Ids :
              Rank(memory.fm, pos, neg) = Rank(baseline.fm, pos, neg)

C5_Witness ==
    /\ lastOp = "reset"
    /\ lastErr = NoError
    /\ prevLife = "MODEL_EXTENDED"
    /\ baseline.present
    /\ writes = 1
    /\ Lifecycle = "MODEL_READY"

\* C6 as stated: extend_model with an empty map on an instance that has a
\* model raises the empty-input error and changes neither the in-memory
\* model nor the lifecycle state.
C6_ExtendEmptyFails ==
    [][(has_model /\ ExtendModel(EmptyMap)) =>
          /\ lastErr' = EmptyInputError
          /\ memory' = memory
          /\ Lifecycle' = Lifecycle]_vars

\* C6, amended: extend_model with an empty map on an instance that has a
\* model passes the shared check of Indexer.extend_model, which raises
\* neither the empty-input nor the no-model error: the call returns, or
\* fails in the concrete implementation.
C6_ExtendEmptyPassesSharedCheck ==
    [][(has_model /\ ExtendModel(EmptyMap)) =>
          lastErr' \in {NoError, ImplError}]_vars

C6_Witness ==
    /\ lastOp = "extend_model"
    /\ lastArgEmpty
    /\ prevLife # "NO_MODEL"
    /\ lastErr = NoError

-----------------------------------------------------------------------------
(* Properties of get_indexers, checked under SpecDisc *)

\* the loop has examined entry i: it went past it, or raised on it
Examined(i) == i < idx \/ culprit = i

\* get_indexers raised one of its two RuntimeErrors
PluginExportErrors == {MarkerError, SameNameError}

\* entry e is scanned and its import succeeds
Candidate(e) == file_re_match(e.file) /\ e.importOk

\* C7: a scanned candidate module with neither the INDEXER_CLASS marker nor
\* a symbol named like the candidate makes get_indexers raise the
\* plugin-export error on that candidate; it is never passed over.
C7_NoExportRaises ==
    \A i \in 1..Len(listing) :
        LET e == listing[i]
            module_name == splitext_root(e.file)
        IN  (/\ Examined(i)
             /\ Candidate(e)
             /\ ~hasattr(e.attrs, standard_var)
             /\ ~hasattr(e.attrs, module_name)
             /\ ~hasattr(e.attrs, module_path_of(module_name))) =>
                (culprit = i /\ outcome \in PluginExportErrors)

\* C8: when get_indexers returns, every candidate module without the marker
\* that defines an Indexer class named like the module (its short name) has
\* that class in the returned map under the class's name.
C8_SameNameRegistered ==
    outcome = "returned" =>
        \A i \in 1..Len(listing) :
            LET e == listing[i]
                module_name == splitext_root(e.file)
            IN  (/\ Candidate(e)
                 /\ ~hasattr(e.attrs, standard_var)
                 /\ hasattr(e.attrs, module_name)
                 /\ e.attrs[module_name].kind = "class"
                 /\ e.attrs[module_name].isIndexer
                 /\ e.attrs[module_name].name = module_name) =>
                    /\ module_name \in DOMAIN registry
                    /\ registry[module_name] = e.attrs[module_name]

\* C9: every value of the map get_indexers returns is a class that
\* subclasses Indexer, also when it comes from a marker list.
C9_RegistryHoldsIndexers ==
    \A n \in DOMAIN registry :
        registry[n].kind = "class" /\ registry[n].isIndexer

\* the marker is neither a class nor a collection of classes, or is a class
\* that is no Indexer
MarkerInvalid(e) ==
    /\ hasattr(e.attrs, standard_var)
    /\ LET v == e.attrs[standard_var] IN
        \/ v.kind = "other"
        \/ v.kind = "class" /\ ~v.isIndexer
        \/ v.kind = "list" /\ \E k \in 1..Len(v.items) : v.items[k].kind # "class"

\* no marker, and the symbol named like the module is no Indexer class
SameNameInvalid(e) ==
    LET module_name == splitext_root(e.file) IN
    /\ ~hasattr(e.attrs, standard_var)
    /\ hasattr(e.attrs, module_name)
    /\ ~(e.attrs[module_name].kind = "class" /\ e.attrs[module_name].isIndexer)

\* C10: get_indexers raises the plugin-export error, and returns no map,
\* on every candidate whose marker is invalid or whose same-named symbol is
\* no Indexer class.
C10_InvalidExportRaises ==
    \A i \in 1..Len(listing) :
        LET e == listing[i] IN
        (/\ Examined(i)
         /\ Candidate(e)
         /\ MarkerInvalid(e) \/ SameNameInvalid(e)) =>
            /\ culprit = i
            /\ outcome \in PluginExportErrors
            /\ registry = EmptyMap

\* the exports of entry e follow the rules: the marker is an Indexer class
\* or a collection of Indexer classes, or, without a marker, the module
\* defines an Indexer class named like the module
ExportsValid(e) ==
    LET module_name == splitext_root(e.file) IN
    IF hasattr(e.attrs, standard_var)
    THEN LET v == e.attrs[standard_var] IN
         \/ v.kind = "class" /\ v.isIndexer
         \/ /\ v.kind = "list"
            /\ \A k \in 1..Len(v.items) :
                  v.items[k].kind = "class" /\ v.items[k].isIndexer
    ELSE /\ hasattr(e.attrs, module_name)
         /\ e.attrs[module_name].kind = "class"
         /\ e.attrs[module_name].isIndexer

\* the classes entry e exports under those rules
ValidExportsOf(e) ==
    LET module_name == splitext_root(e.file) IN
    IF hasattr(e.attrs, standard_var)
    THEN LET v == e.attrs[standard_var] IN
         IF v.kind = "list" THEN {v.items[k] : k \in 1..Len(v.items)} ELSE {v}
    ELSE {e.attrs[module_name]}

\* C11: discovery is all-or-nothing.  The caller has a map only when
\* get_indexers returned, and get_indexers returns only when every scanned
\* entry was imported, exports by the rules, and has each of its exported
\* classes' names in the map.
C11_AllOrNothing ==
    /\ outcome # "returned" => registry = EmptyMap
    /\ outcome = "returned" =>
          \A i \in 1..Len(listing) :
              LET e == listing[i] IN
              file_re_match(e.file) =>
                  /\ e.importOk
                  /\ ExportsValid(e)
                  /\ \A c \in ValidExportsOf(e) : c.name \in DOMAIN registry

\* the plugin directory holds a single candidate, whose marker is an Indexer
\* class or a collection of Indexer classes
SingleMarkerCandidate ==
    /\ Len(listing) = 1
    /\ Candidate(listing[1])
    /\ hasattr(listing[1].attrs, standard_var)
    /\ ExportsValid(listing[1])

\* the classes of the marker of the single candidate
MarkerClasses == ValidExportsOf(listing[1])

\* the map holds exactly one entry per class of cs, under the class's name
ExactlyOnePerClass(map, cs) ==
    /\ DOMAIN map = {c.name : c \in cs}
    /\ \A c \in cs : map[c.name] = c
    /\ Cardinality(DOMAIN map) = Cardinality(cs)

\* C12 as stated: for a single candidate whose marker is a collection of
\* distinct Indexer classes (or one Indexer class), the returned map has
\* exactly one entry per class, keyed by the class's name, and nothing else.
C12_OneEntryPerType ==
    (outcome = "returned" /\ SingleMarkerCandidate) =>
        ExactlyOnePerClass(registry, MarkerClasses)

\* C12, amended: the same, for a marker whose classes have pairwise
\* distinct names.
C12_OneEntryPerTypeName ==
    (/\ outcome = "returned"
     /\ SingleMarkerCandidate
     /\ \A c \in MarkerClasses : \A d \in MarkerClasses :
           c.name = d.name => c = d) =>
        ExactlyOnePerClass(registry, MarkerClasses)

C12_Witness ==
    /\ outcome = "returned"
    /\ SingleMarkerCandidate
    /\ listing[1].attrs[standard_var] = ListOf(<<ClsA, ClsB>>)
    /\ registry = Attr2(<<"A">>, ClsA, <<"B">>, ClsB)

\* entry e is hidden: its name starts with an underscore
Hidden(e) == Len(e.file) >= 1 /\ e.file[1] = "_"

\* C13: the loop passes over a directory entry whose name starts with an
\* underscore, whatever its content (an import that would fail, malformed
\* exports): the entry adds nothing to the map and raises nothing.
C13_HiddenIgnored ==
    [][(/\ idx <= Len(listing)
        /\ Hidden(listing[idx])
        /\ ScanNext) =>
            /\ UNCHANGED <<class_map, outcome, culprit, registry>>
            /\ outcome' = "running"
            /\ idx' = idx + 1]_vars

C13_Witness ==
    /\ outcome = "returned"
    /\ Len(listing) = 2
    /\ Hidden(listing[1]) /\ ~listing[1].importOk
    /\ registry # EmptyMap

Digits == {"0", "1", "2", "3", "4", "5", "6", "7", "8", "9"}

\* C14: an entry whose name starts with a digit is scanned like one that
\* starts with a letter: when get_indexers returns, the import of every
\* such entry succeeded and the Indexer class its marker names is in the
\* returned map.
C14_DigitNamesScanned ==
    outcome = "returned" =>
        \A i \in 1..Len(listing) :
            LET e == listing[i] IN
            (Len(e.file) >= 1 /\ e.file[1] \in Digits) =>
                /\ e.importOk
                /\ (/\ hasattr(e.attrs, standard_var)
                    /\ e.attrs[standard_var].kind = "class"
                    /\ e.attrs[standard_var].isIndexer) =>
                        /\ e.attrs[standard_var].name \in DOMAIN registry

\* the classes the loop registers for entry e, in order
RegisteredBy(e) ==
    IF file_re_match(e.file)
    THEN Exports(e.attrs, module_path_of(splitext_root(e.file))).cl_classes
    ELSE <<>>

\* the classes registered for the first n entries, in scan order
RECURSIVE RegisteredUpTo(_)
RegisteredUpTo(n) ==
    IF n = 0 THEN <<>> ELSE RegisteredUpTo(n - 1) \o RegisteredBy(listing[n])

\* C17: two classes of one name registered in a run raise nothing, and the
\* returned map has one entry per registered name, whose value is the class
\* registered last under that name; whether an entry raises does not depend
\* on what is in the map already.
C17_LastRegisteredWins ==
    /\ (outcome = "running" /\ idx <= Len(listing)) =>
          ScanEntry(listing[idx], class_map).err =
              ScanEntry(listing[idx], EmptyMap).err
    /\ outcome = "returned" =>
          LET reg == RegisteredUpTo(Len(listing)) IN
          /\ DOMAIN registry = {reg[k].name : k \in 1..Len(reg)}
          /\ \A k \in 1..Len(reg) :
                (\A m \in (k + 1)..Len(reg) : reg[m].name # reg[k].name) =>
                    registry[reg[k].name] = reg[k]

\* a marker list with two classes named A, then a candidate exporting the
\* first of them again, and B
C17_Witness ==
    /\ outcome = "returned"
    /\ Len(listing) = 2
    /\ RegisteredBy(listing[1]) = <<ClsA, ClsA2>>
    /\ RegisteredBy(listing[2]) = <<ClsA, ClsB>>
    /\ registry = Attr2(<<"A">>, ClsA, <<"B">>, ClsB)

-----------------------------------------------------------------------------
(* Properties of the directories and of the lifecycle, checked under Spec *)

Dirs == <<dataDirExists, workDirExists>>

\* C15: the constructor creates no directory; after an access to data_dir
\* (work_dir) that directory exists, the configured path was returned and
\* nothing was raised; an access to a directory that exists changes neither
\* directory nor the model; and no step ever removes a directory.
C15_LazyDirectories ==
    [][/\ Construct => UNCHANGED Dirs
       /\ DataDir =>
             /\ dataDirExists'
             /\ lastPath' = data_dir_path
             /\ lastErr' = NoError
             /\ UNCHANGED workDirExists
             /\ dataDirExists => UNCHANGED <<Dirs, ModelState>>
       /\ WorkDir =>
             /\ workDirExists'
             /\ lastPath' = work_dir_path
             /\ lastErr' = NoError
             /\ UNCHANGED dataDirExists
             /\ workDirExists => UNCHANGED <<Dirs, ModelState>>
       /\ dataDirExists => dataDirExists'
       /\ workDirExists => workDirExists']_vars

\* both properties were read, work_dir last, and a lifecycle call was made
C15_Witness ==
    /\ lastOp = "work_dir"
    /\ lastPath = work_dir_path
    /\ lastErr = NoError
    /\ workDirExists
    /\ dataDirExists
    /\ extended

\* the errors raised by the shared precondition checks
SharedErrors == {ModelExistsError, EmptyInputError, NoModelError}

\* C16: a lifecycle call that fails a shared precondition leaves the persisted
\* state as it was: the data directory is not created and the persisted model
\* is not touched.
C16_FailureLeavesPersistedState ==
    [][(/\ lastOp' \in {"generate_model", "extend_model", "rank_model", "reset"}
        /\ lastErr' \in SharedErrors
        /\ (GenerateCall \/ ExtendCall \/ RankCall \/ Reset)) =>
            UNCHANGED <<dataDirExists, persisted>>]_vars

\* C18: generate_model checks for an existing model before it checks for an
\* empty map: a call with an empty map on an instance that has a model fails
\* with the model-already-exists error, and the empty-input error is raised
\* only by a call made in NO_MODEL (with an empty map).
C18_ExistingModelCheckedFirst ==
    [][(lastOp' = "generate_model" /\ GenerateCall) =>
          /\ (has_model /\ lastArgEmpty') => lastErr' = ModelExistsError
          /\ lastErr' = EmptyInputError =>
                (Lifecycle = "NO_MODEL" /\ lastArgEmpty')
          /\ prevLife' = Lifecycle]_vars

\* generate_model({}) was called on an instance that had a model
C18_Witness ==
    /\ lastOp = "generate_model"
    /\ lastArgEmpty
    /\ prevLife # "NO_MODEL"
    /\ lastErr = ModelExistsError

\* C19: no step takes an instance out of having a model; a generate_model
\* call on an instance that has a model fails and leaves the model alone; so
\* the persisted model is written at most once per instance.
C19_NeverBackToNoModel ==
    [][/\ has_model => has_model'
       /\ (lastOp' = "generate_model" /\ has_model /\ GenerateCall) =>
             /\ lastErr' = ModelExistsError
             /\ UNCHANGED <<ModelState, writes>>
       /\ writes' <= 1]_vars

\* this instance generated its model, and a later generate_model failed
C19_Witness ==
    /\ needsModel
    /\ writes = 1
    /\ lastOp = "generate_model"
    /\ lastErr = ModelExistsError
    /\ Lifecycle # "NO_MODEL"

\* C20: reset on an instance in MODEL_READY raises nothing and leaves the
\* instance in MODEL_READY with the same model; and a reset that directly
\* follows a successful reset changes nothing (reset is idempotent).
C20_ResetOnReadyIsNoOp ==
    [][(lastOp' = "reset" /\ Reset) =>
          /\ Lifecycle = "MODEL_READY" =>
                /\ lastErr' = NoError
                /\ Lifecycle' = "MODEL_READY"
                /\ UNCHANGED <<ModelState, baseline, writes, dataDirExists>>
          /\ (lastOp = "reset" /\ lastErr = NoError) =>
                /\ lastErr' = NoError
                /\ UNCHANGED <<ModelState, baseline, writes, dataDirExists>>]_vars

\* a reset was called in MODEL_READY on an instance holding a generated model
C20_Witness ==
    /\ lastOp = "reset"
    /\ prevLife = "MODEL_READY"
    /\ lastErr = NoError
    /\ Lifecycle = "MODEL_READY"
    /\ memory.present
    /\ memory = persisted

====
